---- MODULE Spec2Model ----
(***************************************************************************)
(* Model of rustifact_derive (src/lib.rs): the derive macro for            *)
(* rustifact::ToTokenStream.  One expansion of derive_token_stream is a     *)
(* small state machine: the attribute scan, the dispatch on the data kind, *)
(* the loop of get_enum_body over the variants, and the final quote! that   *)
(* wraps the body in the impl block.  A token stream is a sequence of      *)
(* tokens (strings); a delimited group is written with its delimiters as   *)
(* tokens.                                                                 *)
(***************************************************************************)
EXTENDS Integers, Sequences, FiniteSets, TLC

\* ------------------------------------------------------------------ bounds

MaxAttrs == 2

MaxParams == 1

MaxFields == 2

MaxVariants == 2

MaxPayload == 2

\* ------------------------------------------------------- token utilities

RECURSIVE Cat(_)
\* TokenStream::extend over a sequence of streams: the concatenation.
Cat(ss) == IF ss = <<>> THEN <<>> ELSE Head(ss) \o Cat(Tail(ss))

\* format!("ident{}", i) and Index::from(i): the decimal rendering of i.
Decimal(i) == ToString(i)

\* ------------------------------------------------------------- the input

InType == "In"

OutNames == {"OutA", "OutB"}

\* The tokens that are identifiers (what Ident's parser accepts).
IdentToks == OutNames \cup {InType, "C"}

\* syn::Attribute: the path, the style of the meta (a bare path, a
\* parenthesised list, name = value), and the tokens of a list's arguments.
AttrChoices ==
    { [path |-> <<"repr">>,    style |-> "list", tokens |-> <<"C">>],
      [path |-> <<"OutType">>, style |-> "list", tokens |-> <<"OutA">>],
      [path |-> <<"OutType">>, style |-> "list", tokens |-> <<"OutB">>],
      [path |-> <<"OutType">>, style |-> "list", tokens |-> <<"OutA", "::", "OutB">>],
      [path |-> <<"OutType">>, style |-> "path", tokens |-> <<>>] }

SeqsUpTo(S, n) == UNION { [1..k -> S] : k \in 0..n }

\* Sequences without repetition (field names of one struct are distinct).
DistinctSeqs(S, n) ==
    { s \in SeqsUpTo(S, n) : \A i, j \in 1..Len(s) : i # j => s[i] # s[j] }

FieldNames == { "f" \o Decimal(i) : i \in 1..MaxFields }

\* syn::Fields: Named (the field identifiers), Unnamed (their number), Unit.
NamedFields(names) == [style |-> "Named", named |-> names, len |-> Len(names)]

UnnamedFields(n) == [style |-> "Unnamed", named |-> <<>>, len |-> n]

UnitFields == [style |-> "Unit", named |-> <<>>, len |-> 0]

StructFieldChoices ==
    { NamedFields(s) : s \in DistinctSeqs(FieldNames, MaxFields) }
    \cup { UnnamedFields(n) : n \in 0..MaxFields }
    \cup { UnitFields }

\* The fields of an enum variant; the names of a named-field variant play
\* no part in the expansion.
VariantFieldChoices ==
    { UnnamedFields(n) : n \in 0..MaxPayload }
    \cup { UnitFields, NamedFields(<<"f1">>) }

VariantName(j) == "V" \o Decimal(j)

\* The variant lists: distinct names, any mix of field styles.
VariantChoices ==
    { [j \in 1..Len(fs) |-> [ident |-> VariantName(j), fields |-> fs[j]]] :
        fs \in SeqsUpTo(VariantFieldChoices, MaxVariants) }

\* syn::Data.
DataChoices ==
    { [kind |-> "Struct", fields |-> f, variants |-> <<>>] : f \in StructFieldChoices }
    \cup { [kind |-> "Enum", fields |-> UnitFields, variants |-> vs] : vs \in VariantChoices }
    \cup { [kind |-> "Union", fields |-> UnitFields, variants |-> <<>>] }

\* A generic parameter is its tokens: the identifier, with or without a bound.
ParamForms(k) ==
    { <<"T" \o Decimal(k)>>, <<"T" \o Decimal(k), ":", "Clone">> }

\* syn::Generics: the parameters and the optional where clause (<<>> is None).
ParamChoices ==
    { ps \in SeqsUpTo(UNION { ParamForms(k) : k \in 1..MaxParams }, MaxParams) :
        \A k \in 1..Len(ps) : ps[k] \in ParamForms(k) }

WhereChoices == { <<>>, <<"where", "Self", ":", "Sized">> }

\* One representative of every shape the expansion distinguishes.
ShapeSamples ==
    { [kind |-> "Struct", fields |-> NamedFields(<<"f1">>), variants |-> <<>>],
      [kind |-> "Struct", fields |-> UnnamedFields(1), variants |-> <<>>],
      [kind |-> "Struct", fields |-> UnitFields, variants |-> <<>>],
      [kind |-> "Enum", fields |-> UnitFields,
       variants |-> <<[ident |-> "V1", fields |-> UnitFields],
                      [ident |-> "V2", fields |-> UnnamedFields(1)]>>],
      [kind |-> "Enum", fields |-> UnitFields,
       variants |-> <<[ident |-> "V1", fields |-> NamedFields(<<"f1">>)]>>],
      [kind |-> "Union", fields |-> UnitFields, variants |-> <<>>] }

\* syn::DeriveInput.  Every shape is expanded under every attribute list of
\* at most one attribute, and every attribute list over the sample shapes.
DeriveInputs ==
    [ ident : {InType},
      attrs : SeqsUpTo(AttrChoices, 1),
      params : ParamChoices,
      where_clause : WhereChoices,
      data : DataChoices ]
    \cup
    [ ident : {InType},
      attrs : SeqsUpTo(AttrChoices, MaxAttrs),
      params : ParamChoices,
      where_clause : WhereChoices,
      data : ShapeSamples ]

\* ------------------------------------------------------ the quote! pieces

\* The path of the inner macro call the generated code makes.
QuoteMacro == <<"rustifact", "::", "internal", "::", "quote", "!">>

\* `let element = rustifact::internal::quote! { <inner> }; toks.extend(element);`
ExtendElement(inner) ==
    <<"let", "element", "=">> \o QuoteMacro \o <<"{">> \o inner \o <<"}", ";">>
    \o <<"toks", ".", "extend", "(", "element", ")", ";">>

\* ------------------------------------------------------- get_struct_body

\* quote! { let #ident = self.#ident.to_tok_stream(); }
named_init(ident) ==
    <<"let", ident, "=", "self", ".", ident, ".", "to_tok_stream", "(", ")", ";">>

\* named_field with a single #: the field's own identifier is spliced and
\* the placeholder of the converted value is lost.
named_field_unspliced(ident) == <<ident, ":", ident, ",">>

\* quote! { #ident: ##ident, } : the second # is kept, the ident spliced.
named_field(ident) == <<ident, ":", "#", ident, ",">>

\* Ident::new(&format!("ident{}", i), ..)
ident_n(i) == "ident" \o Decimal(i)

\* unnamed_init reading the first field on every turn.
unnamed_init_first_field(i) ==
    <<"let", ident_n(i), "=", "self", ".", Decimal(0), ".", "to_tok_stream", "(", ")", ";">>

\* quote! { let #ident = self.#index.to_tok_stream(); }, for index i (from 0)
unnamed_init(i) ==
    <<"let", ident_n(i), "=", "self", ".", Decimal(i), ".", "to_tok_stream", "(", ")", ";">>

\* quote! { ##ident, }
unnamed_field(i) == <<"#", ident_n(i), ",">>

get_struct_body(out_type, fields) ==
    CASE fields.style = "Named" ->
           LET named == fields.named
               init_toks == Cat([k \in 1..Len(named) |-> named_init(named[k])])
               flds == Cat([k \in 1..Len(named) |-> named_field(named[k])])
           IN  init_toks \o ExtendElement(<<out_type, "{">> \o flds \o <<"}">>)
      [] fields.style = "Unnamed" ->
           LET init_toks == Cat([k \in 1..fields.len |-> unnamed_init(k - 1)])
               flds == Cat([k \in 1..fields.len |-> unnamed_field(k - 1)])
           IN  init_toks \o ExtendElement(<<out_type, "(">> \o flds \o <<")">>)
      [] fields.style = "Unit" -> <<"(", ")">>

\* --------------------------------------------------------- get_enum_body

\* Ident::new(&format!("ident{}_toks", i), ..)
ident_n_toks(i) == "ident" \o Decimal(i) \o "_toks"

\* quote! { let #id_toks = #id.to_tok_stream(); }
payload_init(i) ==
    <<"let", ident_n_toks(i), "=", ident_n(i), ".", "to_tok_stream", "(", ")", ";">>

\* quote! { #id, }
payload_pattern(i) == <<ident_n(i), ",">>

\* payload_out splicing the first payload at every position.
payload_out_first(i) == <<"#", ident_n_toks(0), ",">>

\* quote! { ##id_toks, }
payload_out(i) == <<"#", ident_n_toks(i), ",">>

\* quote! { #out_type::#ident => rustifact::internal::quote! { #out_type::#ident }, }
unit_arm(out_type, ident) ==
    <<out_type, "::", ident, "=>">> \o QuoteMacro
    \o <<"{", out_type, "::", ident, "}", ",">>

\* unnamed_arm without the fields.is_empty() test: always parenthesised.
unnamed_arm_always_parens(out_type, ident, n) ==
    LET init_toks == Cat([k \in 1..n |-> payload_init(k - 1)])
        flds == Cat([k \in 1..n |-> payload_pattern(k - 1)])
        fields_out == Cat([k \in 1..n |-> payload_out(k - 1)])
    IN  <<out_type, "::", ident, "(">> \o flds \o <<")", "=>", "{">>
        \o init_toks \o QuoteMacro
        \o <<"{", out_type, "::", ident, "(">> \o fields_out \o <<")", "}">>
        \o <<"}", ",">>

\* The arm of a tuple variant with n fields.
unnamed_arm(out_type, ident, n) ==
    LET init_toks == Cat([k \in 1..n |-> payload_init(k - 1)])
        flds == Cat([k \in 1..n |-> payload_pattern(k - 1)])
        fields_out == Cat([k \in 1..n |-> payload_out(k - 1)])
    IN  IF flds = <<>>
        THEN unit_arm(out_type, ident)
        ELSE <<out_type, "::", ident, "(">> \o flds \o <<")", "=>", "{">>
             \o init_toks \o QuoteMacro
             \o <<"{", out_type, "::", ident, "(">> \o fields_out \o <<")", "}">>
             \o <<"}", ",">>

NoPanic == ""

\* variant_match taking a named-field variant for a unit variant.
variant_match_named_as_unit(out_type, v) ==
    CASE v.fields.style = "Unnamed" ->
           [panic |-> NoPanic, toks |-> unnamed_arm(out_type, v.ident, v.fields.len)]
      [] OTHER ->
           [panic |-> NoPanic, toks |-> unit_arm(out_type, v.ident)]

\* The match on v.fields: the tokens of the arm, or the panic.
variant_match(out_type, v) ==
    CASE v.fields.style = "Unnamed" ->
           [panic |-> NoPanic, toks |-> unnamed_arm(out_type, v.ident, v.fields.len)]
      [] v.fields.style = "Named" ->
           [panic |-> "Named fields are not yet supported", toks |-> <<>>]
      [] v.fields.style = "Unit" ->
           [panic |-> NoPanic, toks |-> unit_arm(out_type, v.ident)]

\* quote! { let element = match self { #arms }; toks.extend(element); }
enum_match(arms_toks) ==
    <<"let", "element", "=", "match", "self", "{">> \o arms_toks \o <<"}", ";">>
    \o <<"toks", ".", "extend", "(", "element", ")", ";">>

\* --------------------------------------------------- derive_token_stream

\* attr.path().is_ident("OutType")
is_ident(path, name) == path = <<name>>

\* parse_args_ident reading the first identifier and ignoring what follows.
parse_args_first_ident(attr) ==
    IF attr.style = "list" /\ Len(attr.tokens) >= 1 /\ attr.tokens[1] \in IdentToks
    THEN [ok |-> TRUE, id |-> attr.tokens[1]]
    ELSE [ok |-> FALSE, id |-> ""]

\* attr.parse_args::<Ident>(): Ok for a parenthesised list holding exactly
\* one identifier, Err otherwise.
parse_args_ident(attr) ==
    IF attr.style = "list" /\ Len(attr.tokens) = 1 /\ attr.tokens[1] \in IdentToks
    THEN [ok |-> TRUE, id |-> attr.tokens[1]]
    ELSE [ok |-> FALSE, id |-> ""]

\* scan_attr without the test of the attribute's path.
scan_attr_any_path(cur, attr) ==
    IF parse_args_ident(attr).ok THEN parse_args_ident(attr).id ELSE cur

\* One turn of the loop over ast.attrs.
scan_attr(cur, attr) ==
    IF is_ident(attr.path, "OutType") /\ parse_args_ident(attr).ok
    THEN parse_args_ident(attr).id
    ELSE cur

\* ToTokens of syn::Generics: nothing without parameters, else the
\* parameters as declared (bounds included) between < and >, separated by
\* commas; the where clause is not part of it.
generics_toks(params) ==
    IF params = <<>> THEN <<>>
    ELSE <<"<">>
         \o Cat([k \in 1..Len(params) |->
                   IF k < Len(params) THEN params[k] \o <<",">> ELSE params[k]])
         \o <<">">>

\* impl_block without the generics after the type.
impl_block_bare_type(in_type, params, gen_where, body_toks) ==
    <<"impl">> \o generics_toks(params)
    \o <<"rustifact", "::", "ToTokenStream", "for", in_type>>
    \o gen_where
    \o <<"{", "fn", "to_toks", "(", "&", "self", ",", "toks", ":", "&", "mut">>
    \o <<"rustifact", "::", "internal", "::", "TokenStream", ")", "{">>
    \o body_toks \o <<"}", "}">>

\* The final quote!: the impl block around the body.
impl_block(in_type, params, gen_where, body_toks) ==
    <<"impl">> \o generics_toks(params)
    \o <<"rustifact", "::", "ToTokenStream", "for", in_type>>
    \o generics_toks(params) \o gen_where
    \o <<"{", "fn", "to_toks", "(", "&", "self", ",", "toks", ":", "&", "mut">>
    \o <<"rustifact", "::", "internal", "::", "TokenStream", ")", "{">>
    \o body_toks \o <<"}", "}">>

\* ------------------------------------------------------------- the state

VARIABLES ast, pc, attr_i, out_type, v_i, arms, body, output, panic_msg

vars == <<ast, pc, attr_i, out_type, v_i, arms, body, output, panic_msg>>

Init ==
    /\ ast \in DeriveInputs
    /\ pc = "attrs"
    /\ attr_i = 1
    /\ out_type = ast.ident
    /\ v_i = 1
    /\ arms = <<>>
    /\ body = <<>>
    /\ output = <<>>
    /\ panic_msg = NoPanic

\* for attr in &ast.attrs { ... }
ScanAttr ==
    /\ pc = "attrs"
    /\ attr_i <= Len(ast.attrs)
    /\ out_type' = scan_attr(out_type, ast.attrs[attr_i])
    /\ attr_i' = attr_i + 1
    /\ UNCHANGED <<ast, pc, v_i, arms, body, output, panic_msg>>

\* Data::Struct(data) => get_struct_body(&out_type, data)
DispatchStruct ==
    /\ pc = "attrs"
    /\ attr_i > Len(ast.attrs)
    /\ ast.data.kind = "Struct"
    /\ body' = get_struct_body(out_type, ast.data.fields)
    /\ pc' = "wrap"
    /\ UNCHANGED <<ast, attr_i, out_type, v_i, arms, output, panic_msg>>

\* Data::Enum(data) => get_enum_body(&out_type, data): entry, arms is empty
DispatchEnum ==
    /\ pc = "attrs"
    /\ attr_i > Len(ast.attrs)
    /\ ast.data.kind = "Enum"
    /\ arms' = <<>>
    /\ v_i' = 1
    /\ pc' = "enum"
    /\ UNCHANGED <<ast, attr_i, out_type, body, output, panic_msg>>

\* Data::Union(_) => panic!(..)
DispatchUnion ==
    /\ pc = "attrs"
    /\ attr_i > Len(ast.attrs)
    /\ ast.data.kind = "Union"
    /\ panic_msg' = "Unions are not yet supported"
    /\ pc' = "panic"
    /\ UNCHANGED <<ast, attr_i, out_type, v_i, arms, body, output>>

\* One turn of `for v in &data.variants`: the arm is appended, or the
\* expansion panics and its locals are dropped.
EnumVariant ==
    /\ pc = "enum"
    /\ v_i <= Len(ast.data.variants)
    /\ LET r == variant_match(out_type, ast.data.variants[v_i])
       IN  IF r.panic # NoPanic
           THEN /\ panic_msg' = r.panic
                /\ pc' = "panic"
                /\ arms' = <<>>
                /\ UNCHANGED v_i
           ELSE /\ arms' = arms \o r.toks
                /\ v_i' = v_i + 1
                /\ UNCHANGED <<pc, panic_msg>>
    /\ UNCHANGED <<ast, attr_i, out_type, body, output>>

\* The loop is over: the match around the arms is the body.
EnumFinish ==
    /\ pc = "enum"
    /\ v_i > Len(ast.data.variants)
    /\ body' = enum_match(arms)
    /\ pc' = "wrap"
    /\ UNCHANGED <<ast, attr_i, out_type, v_i, arms, output, panic_msg>>

\* The impl block is emitted.
Wrap ==
    /\ pc = "wrap"
    /\ output' = impl_block(ast.ident, ast.params, ast.where_clause, body)
    /\ pc' = "done"
    /\ UNCHANGED <<ast, attr_i, out_type, v_i, arms, body, panic_msg>>

Next ==
    \/ ScanAttr
    \/ DispatchStruct
    \/ DispatchEnum
    \/ DispatchUnion
    \/ EnumVariant
    \/ EnumFinish
    \/ Wrap

Spec == Init /\ [][Next]_vars

Terminated == pc \in {"done", "panic"}

\* ------------------------------------------- reading a token stream back

Openers == {"(", "{", "["}

Closers == {")", "}", "]"}

DepthStep(t) == IF t \in Openers THEN 1 ELSE IF t \in Closers THEN -1 ELSE 0

RECURSIVE TopSeps(_, _, _, _, _)
\* The places in lo..hi where sep stands outside any group, for a range
\* entered at nesting depth d, and the change of depth over the range.
TopSeps(seq, sep, lo, hi, d) ==
    IF lo > hi THEN [pos |-> {}, delta |-> 0]
    ELSE IF lo = hi
    THEN [pos |-> IF seq[lo] = sep /\ d = 0 THEN {lo} ELSE {},
          delta |-> DepthStep(seq[lo])]
    ELSE LET mid == (lo + hi) \div 2
             L == TopSeps(seq, sep, lo, mid, d)
             R == TopSeps(seq, sep, mid + 1, hi, d + L.delta)
         IN  [pos |-> L.pos \cup R.pos, delta |-> L.delta + R.delta]

\* The pieces of seq between the occurrences of sep outside any group; the
\* last piece is what follows the last sep (<<>> when seq ends with it).
SplitTop(seq, sep) ==
    LET P == TopSeps(seq, sep, 1, Len(seq), 0).pos
        n == Cardinality(P)
        at(k) == IF k = 0 THEN 0
                 ELSE IF k = n + 1 THEN Len(seq) + 1
                 ELSE CHOOSE q \in P : Cardinality({ r \in P : r < q }) = k - 1
    IN  [k \in 1..(n + 1) |-> SubSeq(seq, at(k - 1) + 1, at(k) - 1)]

\* The pieces of a list whose every item ends with sep.
Items(seq, sep) ==
    LET parts == SplitTop(seq, sep) IN SubSeq(parts, 1, Len(parts) - 1)

\* The same list ends with sep (or is empty).
Terminates(seq, sep) == LET parts == SplitTop(seq, sep) IN parts[Len(parts)] = <<>>

Count(seq, tok) == Cardinality({ i \in DOMAIN seq : seq[i] = tok })

\* The first place of tok in seq (0 when absent).
Find(seq, tok) ==
    IF \E i \in DOMAIN seq : seq[i] = tok
    THEN CHOOSE i \in DOMAIN seq : seq[i] = tok /\ \A j \in 1..(i - 1) : seq[j] # tok
    ELSE 0

\* The places of the inner quote! calls in a body.
QuoteCalls(seq) ==
    { p \in 1..(Len(seq) - 6) : SubSeq(seq, p, p + 5) = QuoteMacro /\ seq[p + 6] = "{" }

\* The statement `toks.extend(element)`, and the tail every body that
\* appends to toks ends with.
ExtendStmt == <<"toks", ".", "extend", "(", "element", ")">>

\* ------------------------------------------------- the shape of the input

IsStruct == ast.data.kind = "Struct"

IsEnum == ast.data.kind = "Enum"

IsUnion == ast.data.kind = "Union"

HasNamedVariant ==
    IsEnum /\ \E j \in DOMAIN ast.data.variants : ast.data.variants[j].fields.style = "Named"

Unsupported == IsUnion \/ HasNamedVariant

BodyBuilt == pc \in {"wrap", "done"}

\* The arms of the generated match, read back from the body.
MatchHead == <<"let", "element", "=", "match", "self", "{">>

MatchArms ==
    LET stmts == SplitTop(body, ";")
        m == stmts[1]
    IN  Items(SubSeq(m, Len(MatchHead) + 1, Len(m) - 1), ",")

ArmPattern(arm) == SubSeq(arm, 1, Find(arm, "=>") - 1)

ArmRhs(arm) == SubSeq(arm, Find(arm, "=>") + 1, Len(arm))

\* ------------------------------------------------------------ the claims

\* C1: a union, and an enum with a named-field variant at any place of its
\* variant list, never reaches the emitted impl: the output stays empty in
\* every state of the expansion, the expansion cannot stop before its end,
\* and it ends in the panic with the message of the rejected shape.
C1_UnsupportedRejected ==
    Unsupported =>
        /\ output = <<>>
        /\ pc \notin {"wrap", "done"}
        /\ (~Terminated => ENABLED Next)
        /\ (Terminated =>
              /\ pc = "panic"
              /\ panic_msg = (IF IsUnion THEN "Unions are not yet supported"
                              ELSE "Named fields are not yet supported"))

\* C1 witness: the panic of an enum whose named-field variant comes after a
\* variant that was processed.
C1_Witness ==
    /\ pc = "panic"
    /\ IsEnum
    /\ Len(ast.data.variants) >= 2
    /\ ast.data.variants[1].fields.style = "Unnamed"
    /\ ast.data.variants[2].fields.style = "Named"
    /\ v_i = 2

\* C2: every supported shape (unit struct included) yields a body whose
\* last statement appends the reconstructed element to toks.
C2_EveryShapeExtendsToks ==
    (pc = "done" /\ ~Unsupported) =>
        /\ Len(body) >= Len(ExtendStmt) + 1
        /\ SubSeq(body, Len(body) - Len(ExtendStmt), Len(body)) = ExtendStmt \o <<";">>

\* An attribute OutType(X) with X a single identifier.
WellFormedOutType(a) ==
    /\ a.path = <<"OutType">>
    /\ a.style = "list"
    /\ Len(a.tokens) = 1
    /\ a.tokens[1] \in IdentToks

OutTypeArgs ==
    { ast.attrs[i].tokens[1] :
        i \in { k \in DOMAIN ast.attrs : WellFormedOutType(ast.attrs[k]) } }

NoOutTypeAttr == \A i \in DOMAIN ast.attrs : ast.attrs[i].path # <<"OutType">>

\* The type names of the literals the body reconstructs.
LiteralNames == { body[p + 7] : p \in QuoteCalls(body) }

\* The type the emitted impl is for.
ImplTarget == output[Find(output, "for") + 1]

\* C3: with an attribute OutType(X) every reconstructed literal is named X,
\* with no OutType attribute every one is named by the input type, and the
\* impl is for the input type in both cases.
C3_OutTypeNamesLiterals ==
    pc = "done" =>
        /\ \A X \in OutNames : OutTypeArgs = {X} => LiteralNames \subseteq {X}
        /\ NoOutTypeAttr => LiteralNames \subseteq {ast.ident}
        /\ ImplTarget = ast.ident

\* C3 witness: an enum of two variants expanded under OutType(OutA).
C3_Witness ==
    /\ pc = "done"
    /\ OutTypeArgs = {"OutA"}
    /\ IsEnum
    /\ Len(ast.data.variants) = 2
    /\ Cardinality(QuoteCalls(body)) = 2

FnHead ==
    <<"{", "fn", "to_toks", "(", "&", "self", ",", "toks", ":", "&", "mut">>
    \o <<"rustifact", "::", "internal", "::", "TokenStream", ")", "{">>

\* C4: a struct or supported enum ends with exactly one impl of
\* rustifact::ToTokenStream for the input type, with one method to_toks
\* around the body; the declared generics stand after `impl` and after the
\* type, followed by the where clause as declared; no generics, none emitted.
C4_OneImplForInputType ==
    /\ (Terminated /\ ~Unsupported) => pc = "done"
    /\ pc = "done" =>
         LET pFor == Find(output, "for")
             pBrace == Find(output, "{")
             G == generics_toks(ast.params)
         IN  /\ Count(output, "impl") = 1
             /\ Count(output, "fn") = 1
             /\ SubSeq(output, 1, pFor)
                  = <<"impl">> \o G \o <<"rustifact", "::", "ToTokenStream", "for">>
             /\ output[pFor + 1] = ast.ident
             /\ SubSeq(output, pFor + 2, pBrace - 1) = G \o ast.where_clause
             /\ SubSeq(output, pBrace, Len(output)) = FnHead \o body \o <<"}", "}">>
             /\ (ast.params = <<>> => Count(output, "<") = 0)

\* C4 witness: a generic enum with a where clause, expanded.
C4_Witness ==
    /\ pc = "done"
    /\ ast.params # <<>>
    /\ ast.where_clause # <<>>
    /\ IsEnum
    /\ ast.data.variants # <<>>

\* The statements of a struct body: the bindings, then the element, then
\* the extend.
BodyStmts == Items(body, ";")

\* `let element = rustifact::internal::quote! { Out <open> items <close> }`:
\* the tokens between the delimiters of the reconstructed literal.
ElementHead == <<"let", "element", "=">> \o QuoteMacro \o <<"{">>

ElementIsLiteral(stmt, open, close) ==
    /\ Len(stmt) >= Len(ElementHead) + 4
    /\ SubSeq(stmt, 1, Len(ElementHead)) = ElementHead
    /\ stmt[Len(ElementHead) + 2] = open
    /\ stmt[Len(stmt) - 1] = close
    /\ stmt[Len(stmt)] = "}"

LiteralItems(stmt) ==
    Items(SubSeq(stmt, Len(ElementHead) + 3, Len(stmt) - 2), ",")

LiteralTerminates(stmt) ==
    Terminates(SubSeq(stmt, Len(ElementHead) + 3, Len(stmt) - 2), ",")

\* C5: for a struct with named fields f1..fn the body is n bindings
\* `let fi = self.fi.to_tok_stream();` in declaration order, then the
\* literal `Out { ... }` with n initializers `fi: #fi` in the same order,
\* then the extend of toks.
C5_NamedStructBody ==
    (pc = "done" /\ IsStruct /\ ast.data.fields.style = "Named") =>
        LET named == ast.data.fields.named
            n == Len(named)
            stmts == BodyStmts
        IN  /\ Terminates(body, ";")
            /\ Len(stmts) = n + 2
            /\ Count(body, "to_tok_stream") = n
            /\ \A i \in 1..n :
                 stmts[i] = <<"let", named[i], "=", "self", ".", named[i],
                              ".", "to_tok_stream", "(", ")">>
            /\ ElementIsLiteral(stmts[n + 1], "{", "}")
            /\ LiteralTerminates(stmts[n + 1])
            /\ Len(LiteralItems(stmts[n + 1])) = n
            /\ \A i \in 1..n :
                 LiteralItems(stmts[n + 1])[i] = <<named[i], ":", "#", named[i]>>
            /\ stmts[n + 2] = ExtendStmt

\* C5 witness: a struct of two named fields declared f2, f1, expanded.
C5_Witness ==
    /\ pc = "done"
    /\ IsStruct
    /\ ast.data.fields.style = "Named"
    /\ ast.data.fields.named = <<"f2", "f1">>

\* C7: for a struct with n >= 1 positional fields the body binds ident<i>
\* to the conversion of self.<i> for i = 0..n-1 in increasing order, the
\* locals are distinct, and the literal `Out( ... )` splices ident0 ..
\* ident<n-1> in that order, n positions in all.
C7_TupleStructBody ==
    (pc = "done" /\ IsStruct /\ ast.data.fields.style = "Unnamed"
       /\ ast.data.fields.len >= 1) =>
        LET n == ast.data.fields.len
            stmts == BodyStmts
            local(i) == "ident" \o ToString(i)
        IN  /\ Terminates(body, ";")
            /\ Len(stmts) = n + 2
            /\ \A i \in 0..(n - 1) :
                 stmts[i + 1] = <<"let", local(i), "=", "self", ".", ToString(i),
                                  ".", "to_tok_stream", "(", ")">>
            /\ \A i, j \in 1..n : i # j => stmts[i][2] # stmts[j][2]
            /\ ElementIsLiteral(stmts[n + 1], "(", ")")
            /\ LiteralTerminates(stmts[n + 1])
            /\ Len(LiteralItems(stmts[n + 1])) = n
            /\ \A i \in 0..(n - 1) :
                 LiteralItems(stmts[n + 1])[i + 1] = <<"#", local(i)>>
            /\ stmts[n + 2] = ExtendStmt

\* C7 witness: a struct of two positional fields, expanded.
C7_Witness ==
    /\ pc = "done"
    /\ IsStruct
    /\ ast.data.fields.style = "Unnamed"
    /\ ast.data.fields.len = 2

\* The body of an enum is the match statement followed by the extend.
EnumBodyShape ==
    LET stmts == BodyStmts
    IN  /\ Terminates(body, ";")
        /\ Len(stmts) = 2
        /\ Len(stmts[1]) >= Len(MatchHead) + 1
        /\ SubSeq(stmts[1], 1, Len(MatchHead)) = MatchHead
        /\ stmts[1][Len(stmts[1])] = "}"
        /\ Terminates(SubSeq(stmts[1], Len(MatchHead) + 1, Len(stmts[1]) - 1), ",")
        /\ stmts[2] = ExtendStmt

\* The arm of a variant V with k >= 1 payloads: the pattern binds k distinct
\* names, the block converts the i-th of them into the i-th local, and the
\* literal of V splices the k locals in the same order.
TupleArmOk(pat, rhs, V, k) ==
    LET binders == Items(SubSeq(pat, 5, Len(pat) - 1), ",")
        parts == SplitTop(SubSeq(rhs, 2, Len(rhs) - 1), ";")
        tail == parts[Len(parts)]
        outs == Items(SubSeq(tail, 12, Len(tail) - 2), ",")
    IN  /\ Len(pat) >= 6
        /\ pat[4] = "("
        /\ pat[Len(pat)] = ")"
        /\ Terminates(SubSeq(pat, 5, Len(pat) - 1), ",")
        /\ Len(binders) = k
        /\ \A i \in 1..k : Len(binders[i]) = 1
        /\ \A i, j \in 1..k : i # j => binders[i] # binders[j]
        /\ rhs[1] = "{"
        /\ rhs[Len(rhs)] = "}"
        /\ Count(rhs, "to_tok_stream") = k
        /\ Len(parts) = k + 1
        /\ \A i \in 1..k :
             /\ Len(parts[i]) = 8
             /\ parts[i] = <<"let", parts[i][2], "=", binders[i][1],
                             ".", "to_tok_stream", "(", ")">>
        /\ \A i, j \in 1..k : i # j => parts[i][2] # parts[j][2]
        /\ Len(tail) >= 13
        /\ SubSeq(tail, 1, 7) = QuoteMacro \o <<"{">>
        /\ SubSeq(tail, 9, 11) = <<"::", V, "(">>
        /\ SubSeq(tail, Len(tail) - 1, Len(tail)) = <<")", "}">>
        /\ Terminates(SubSeq(tail, 12, Len(tail) - 2), ",")
        /\ Len(outs) = k
        /\ \A i \in 1..k : outs[i] = <<"#", parts[i][2]>>

\* The arm of a unit variant V: the literal of V with no payload.
UnitArmOk(pat, rhs, V) ==
    /\ Len(pat) = 3
    /\ Len(rhs) = 11
    /\ rhs = QuoteMacro \o <<"{", rhs[8], "::", V, "}">>

\* C6: the match of an enum of unit and tuple variants has one arm per
\* declared variant, in declaration order; the arm of a variant with k >= 1
\* payloads binds k payloads, converts each with to_tok_stream() and
\* reconstructs the same variant with the k converted payloads in order; the
\* arm of a unit variant reconstructs it with no payload.
C6_EnumArms ==
    (pc = "done" /\ IsEnum) =>
        LET vs == ast.data.variants
            armsR == MatchArms
        IN  /\ EnumBodyShape
            /\ Len(armsR) = Len(vs)
            /\ \A j \in 1..Len(vs) :
                 LET arm == armsR[j]
                     pat == ArmPattern(arm)
                     rhs == ArmRhs(arm)
                     v == vs[j]
                 IN  /\ Count(arm, "=>") = 1
                     /\ Len(pat) >= 3
                     /\ pat[2] = "::"
                     /\ pat[3] = v.ident
                     /\ (v.fields.style = "Unnamed" /\ v.fields.len >= 1)
                          => TupleArmOk(pat, rhs, v.ident, v.fields.len)
                     /\ v.fields.style = "Unit" => UnitArmOk(pat, rhs, v.ident)

\* C6 witness: an enum of a tuple variant with two payloads followed by a
\* unit variant, expanded.
C6_Witness ==
    /\ pc = "done"
    /\ IsEnum
    /\ Len(ast.data.variants) = 2
    /\ ast.data.variants[1].fields = UnnamedFields(2)
    /\ ast.data.variants[2].fields = UnitFields

\* C8: the pattern of every arm names the input type, and the literal on
\* the right of the arm names the output type.
C8_PatternsNameInputType ==
    (pc = "done" /\ IsEnum) =>
        LET armsR == MatchArms
        IN  \A j \in 1..Len(armsR) :
                /\ ArmPattern(armsR[j])[1] = ast.ident
                /\ \A p \in QuoteCalls(armsR[j]) : armsR[j][p + 7] = out_type

Max(S) == CHOOSE m \in S : \A x \in S : x <= m

\* C9: after any number of turns of the attribute loop the output type is
\* the argument of the last well-formed OutType attribute scanned so far,
\* and the input type's identifier when there is none: attributes of another
\* path and OutType attributes whose arguments are not one identifier change
\* nothing; and no attribute leads to the error outcome.
C9_OutTypeResolution ==
    LET W == { i \in 1..(attr_i - 1) : WellFormedOutType(ast.attrs[i]) }
    IN  /\ out_type = (IF W = {} THEN ast.ident ELSE ast.attrs[Max(W)].tokens[1])
        /\ pc = "panic" => Unsupported

\* C9 witness: OutType(OutA), then an OutType attribute that is not one
\* identifier, both scanned, the expansion over.
C9_Witness ==
    /\ pc = "done"
    /\ Len(ast.attrs) = 2
    /\ WellFormedOutType(ast.attrs[1])
    /\ ast.attrs[2].path = <<"OutType">>
    /\ ~WellFormedOutType(ast.attrs[2])
    /\ attr_i = 3

\* The arm of a variant V without payload, under the output type T.
BareArm(T, V) == <<T, "::", V, "=>">> \o QuoteMacro \o <<"{", T, "::", V, "}">>

\* C10: a tuple variant V() of no fields gets the arm of a unit variant V,
\* `Out::V => quote! { Out::V }`, and an arm has a parenthesised pattern
\* exactly when its variant has at least one positional field.
C10_EmptyTupleVariantIsUnit ==
    (pc = "done" /\ IsEnum) =>
        LET armsR == MatchArms
        IN
        /\ Len(armsR) = Len(ast.data.variants)
        /\ \A j \in 1..Len(ast.data.variants) :
             LET v == ast.data.variants[j]
                 arm == armsR[j]
             IN  /\ v.fields.len = 0 => arm = BareArm(out_type, v.ident)
                 /\ Count(ArmPattern(arm), "(") > 0
                      <=> (v.fields.style = "Unnamed" /\ v.fields.len >= 1)

\* C10 witness: an enum of V1() and a tuple variant with a payload, expanded.
C10_Witness ==
    /\ pc = "done"
    /\ IsEnum
    /\ Len(ast.data.variants) = 2
    /\ ast.data.variants[1].fields = UnnamedFields(0)
    /\ ast.data.variants[2].fields.style = "Unnamed"
    /\ ast.data.variants[2].fields.len >= 1

====
